---- MODULE Spec2Model ----
(***************************************************************************)
(* Shortest-path solvers of py3algs: bellman_ford_sssp, dijkstra_sssp      *)
(* (on datastructs.binary_heap) and johnsons_apsp, over small weighted     *)
(* graphs.  A graph object is a record                                     *)
(*    directed : TRUE for a networkx DiGraph, FALSE for a Graph,           *)
(*    nodes : the node set,                                                *)
(*    w     : the weight of every adjacency entry adj[u][v] (attribute     *)
(*            `weight'); in a Graph the entries adj[u][v] and adj[v][u]    *)
(*            are one edge and share the weight,                           *)
(*    order : the order in which the object's node and neighbour           *)
(*            dictionaries iterate (nodes_iter, edges_iter, edges(u)).     *)
(* Node identifiers are integers so that the tuples (dist, node) kept in   *)
(* the heap are comparable, as the code requires of its node names.        *)
(***************************************************************************)
EXTENDS Integers, Sequences, FiniteSets, TLC

\* ---- bounds of the explored inputs ----
MaxNodes == 3
MaxEdges == 3

\* of the heaps explored on their own: the length of the list of items and
\* the greatest priority
MaxHeapLen == 4
MaxKey == 3

\* edge weights of the caller's graphs
Weights == {-1, 0, 2}

\* float('inf') and None, as values outside the ranges of distances and nodes
Inf == 1000
None == 0

\* -inf and nan, which the floats of johnsons_apsp can become (inf - inf)
NegInf == -1000
NaN == 2000

\* the node names '_temp_supersource' / '_supersource' and their
\* time.asctime() fallbacks
TempSupersource == 91
TempSupersourceAsctime == 92
Supersource == 93
SupersourceAsctime == 94

VARIABLES
  store,         \* the two graph objects: store.caller (graph_ / the caller's), store.work (a copy())
  graph,         \* the solver's local name `graph': which object it refers to
  op,            \* the public function the caller invoked
  source,        \* the `source' argument of the running single-source solver
  pc,            \* position in the running code
  ss,            \* the supersource added to the working copy
  i,             \* bellman-ford: number of completed full passes
  dist, pred,    \* the running single-source solver's dicts
  finalized, num_finalized, heap,   \* dijkstra's locals; heap is BinaryHeap._items
  max_,          \* the BinaryHeap's order: TRUE for a max-heap (_less is operator.gt)
  node_weight,   \* johnson: the potentials
  jdist, jpred,  \* johnson: the nested dicts dist, pred
  iter,          \* johnson: the nodes `for node in graph.nodes_iter()' has yet to yield
  ret,           \* what the public call gave back: a result or an exception
  first,         \* what the same call gave back the time before, once it is made again
  place,         \* where add_node placed the supersource in this process, once it has
  runs,          \* johnson's Dijkstra runs under way at once: the locals of each, by source
  _items, _leader, _followers, _cluster_size,   \* a UnionFindSimpleImpl's fields
  united,        \* the pairs {item_a, item_b} that union was called with
  lower_half, higher_half,   \* a MedianMaintainer's heaps: the _items of each
  inserted       \* the items that MedianMaintainer.insert was called with

vars == <<store, graph, op, source, pc, ss, i, dist, pred, finalized,
          num_finalized, heap, max_, node_weight, jdist, jpred, iter, ret,
          first, place, runs, _items, _leader, _followers, _cluster_size,
          united, lower_half, higher_half, inserted>>

\* ------------------------------------------------------------------------
\* float arithmetic:  inf + x = inf,  inf - inf = nan,  nan + x = nan, and
\* every comparison with nan is false
Plus(a, b) ==
  IF a = NaN \/ b = NaN THEN NaN
  ELSE IF a = Inf THEN (IF b = NegInf THEN NaN ELSE Inf)
  ELSE IF a = NegInf THEN (IF b = Inf THEN NaN ELSE NegInf)
  ELSE IF b \in {Inf, NegInf} THEN b
  ELSE a + b

Neg(a) == IF a = NaN THEN NaN ELSE IF a = Inf THEN NegInf ELSE IF a = NegInf THEN Inf ELSE 0 - a

Minus(a, b) == Plus(a, Neg(b))

Less(a, b) ==
  /\ a # NaN /\ b # NaN
  /\ a # Inf /\ b # NegInf
  /\ (a = NegInf \/ b = Inf \/ a < b)

\* ------------------------------------------------------------------------
\* The graph collaborator (networkx DiGraph / Graph)
EmptyGraph == [directed |-> TRUE, nodes |-> {}, w |-> <<>>, order |-> <<>>]

number_of_nodes(g) == Cardinality(g.nodes)

nodes_iter(g) == g.order

\* the place of node x in the iteration order
Pos(g, x) == CHOOSE k \in 1..Len(g.order) : g.order[k] = x

\* edges_iter(data=True).  DiGraph: for n in adj: for nbr in adj[n]: yield
\* (n, nbr, data).  Graph: the same loops, but an edge is yielded once, from
\* the endpoint met first (`if nbr not in seen'), a self-loop included.
edges_iter(g) ==
  LET n == Len(g.order)
      pairs == [k \in 1..(n * n) |->
                  <<g.order[((k - 1) \div n) + 1], g.order[((k - 1) % n) + 1]>>]
  IN SelectSeq(pairs, LAMBDA e : /\ e \in DOMAIN g.w
                                 /\ (g.directed \/ Pos(g, e[1]) <= Pos(g, e[2])))

\* edges(u, data=True): the edges leaving u (in a Graph: every edge at u)
edges(g, u) ==
  LET pairs == [k \in 1..Len(g.order) |-> <<u, g.order[k]>>]
  IN SelectSeq(pairs, LAMBDA e : e \in DOMAIN g.w)

\* add_node(x), x not in the graph; k is where the dictionaries place it
InsertAt(s, k, x) == SubSeq(s, 1, k) \o <<x>> \o SubSeq(s, k + 1, Len(s))

add_node(g, x, k) ==
  [g EXCEPT !.nodes = @ \cup {x}, !.order = InsertAt(@, k, x)]

\* the adjacency entries that make the edge (u, v)
Entries(g, u, v) == IF g.directed THEN {<<u, v>>} ELSE {<<u, v>>, <<v, u>>}

add_edge(g, u, v, wt) ==
  [g EXCEPT !.w = [e \in DOMAIN @ \cup Entries(g, u, v) |->
                     IF e \in Entries(g, u, v) THEN wt ELSE @[e]]]

remove_edge(g, u, v) ==
  [g EXCEPT !.w = [e \in DOMAIN @ \ Entries(g, u, v) |-> @[e]]]

remove_node(g, x) ==
  [directed |-> g.directed,
   nodes |-> g.nodes \ {x},
   w     |-> [e \in {d \in DOMAIN g.w : d[1] # x /\ d[2] # x} |-> g.w[e]],
   order |-> SelectSeq(g.order, LAMBDA n : n # x)]

\* ------------------------------------------------------------------------
\* What a public call gives back
NoReturn == [kind |-> "none", val |-> <<>>]
Return(v) == [kind |-> "return", val |-> v]
Raise(e) == [kind |-> "raise", val |-> e]
DistAndPred(d, p) == [dist |-> d, pred |-> p]

\* d[k] = v on a dict: sets the entry, adding the key when it is new
SetItem(d, k, v) == [x \in DOMAIN d \cup {k} |-> IF x = k THEN v ELSE d[x]]

\* (fault: the entry stays)
DelItem_not(d, k) == d

\* del(d[k])
DelItem(d, k) == [x \in DOMAIN d \ {k} |-> d[x]]

\* ------------------------------------------------------------------------
\* bellman_ford_sssp

\* _init(graph, source)
bf_init(g, s) ==
  DistAndPred(SetItem([n \in g.nodes |-> Inf], s, 0), [n \in g.nodes |-> None])

\* one `for u, v, edge_attrs in graph.edges_iter(data=True)' loop of the main
\* loop over the edges es still to come: relaxes in place
RECURSIVE bf_relax(_, _, _)
bf_relax(g, es, dp) ==
  IF es = <<>> THEN dp
  ELSE LET u == es[1][1]
           v == es[1][2]
           nd == Plus(dp.dist[u], g.w[es[1]])
       IN IF Less(nd, dp.dist[v])
          THEN bf_relax(g, Tail(es),
                        DistAndPred([dp.dist EXCEPT ![v] = nd], [dp.pred EXCEPT ![v] = u]))
          ELSE bf_relax(g, Tail(es), dp)

bf_pass(g, dp) == bf_relax(g, edges_iter(g), dp)

\* the last loop: does some edge still relax?
bf_negative_cycle(g, dp) ==
  \E k \in 1..Len(edges_iter(g)) :
     LET e == edges_iter(g)[k]
     IN Less(Plus(dp.dist[e[1]], g.w[e]), dp.dist[e[2]])

\* range(graph.number_of_nodes()-1): the number of passes of the main loop
bf_passes(g) == number_of_nodes(g) - 1

\* `for i in range(...)', n passes to go
RECURSIVE bf_main_loop(_, _, _)
bf_main_loop(g, dp, n) ==
  IF n <= 0 THEN dp ELSE bf_main_loop(g, bf_pass(g, dp), n - 1)

bellman_ford_shortest_paths(g, s) ==
  LET dp == bf_main_loop(g, bf_init(g, s), bf_passes(g))
  IN IF bf_negative_cycle(g, dp) THEN Raise("NegativeCycleError") ELSE Return(dp)

\* ------------------------------------------------------------------------
\* datastructs.binary_heap: the list of items, positions counted from 0

\* list_[k], k >= 0 or, as Python reads it, k < 0 from the end
Idx(l, k) == IF k < 0 THEN Len(l) + k ELSE k
At(l, k) == l[Idx(l, k) + 1]

\* operator.lt / operator.gt on the items, tuples (priority, data)
TupleLt(a, b) == a[1] < b[1] \/ (a[1] = b[1] /\ a[2] < b[2])

\* (fault: operator.gt for a min heap, operator.lt for a max heap)
less_exchanged(m, a, b) == IF m THEN TupleLt(a, b) ELSE TupleLt(b, a)

less(m, a, b) == IF m THEN TupleLt(b, a) ELSE TupleLt(a, b)

swap(l, a, b) ==
  [k \in 1..Len(l) |->
     IF k = Idx(l, a) + 1 THEN At(l, b)
     ELSE IF k = Idx(l, b) + 1 THEN At(l, a)
     ELSE l[k]]

\* (fault: the new item is left where it was appended)
shift_up_not(l, index, m) == l

RECURSIVE shift_up(_, _, _)
shift_up(l, index, m) ==
  LET parent == (index - 1) \div 2
  IN IF index > 0 /\ ~less(m, At(l, parent), At(l, index))
     THEN shift_up(swap(l, index, parent), parent, m)
     ELSE l

\* (fault: the left child taken for the least child)
RECURSIVE shift_down_left(_, _, _)
shift_down_left(l, index, m) ==
  LET left == 2 * index + 1
  IN IF left >= Len(l) THEN l
     ELSE IF less(m, At(l, left), At(l, index))
          THEN shift_down_left(swap(l, index, left), left, m)
          ELSE l

RECURSIVE shift_down(_, _, _)
shift_down(l, index, m) ==
  LET left == 2 * index + 1
      right == left + 1
      min_child == IF right < Len(l)
                   THEN (IF less(m, At(l, right), At(l, left)) THEN right ELSE left)
                   ELSE left
  IN IF left >= Len(l) THEN l
     ELSE IF less(m, At(l, min_child), At(l, index))
          THEN shift_down(swap(l, index, min_child), min_child, m)
          ELSE l

\* heapify: `for i in reversed(range(n//2)): _shift_down(list_, i, less)',
\* index the next i
RECURSIVE heapify_from(_, _, _)
heapify_from(l, index, m) ==
  IF index < 0 THEN l ELSE heapify_from(shift_down(l, index, m), index - 1, m)

\* (fault: range(n//2) not reversed, the root shifted down first)
RECURSIVE heapify_forward_from(_, _, _)
heapify_forward_from(l, index, m) ==
  IF index >= Len(l) \div 2 THEN l
  ELSE heapify_forward_from(shift_down(l, index, m), index + 1, m)

heapify_forward(l, m) == heapify_forward_from(l, 0, m)

heapify(l, m) == heapify_from(l, (Len(l) \div 2) - 1, m)

\* BinaryHeap.__init__(list_, max_): _items; given is `list_ is not None'
heap_new(given, list_, m) == IF given THEN heapify(list_, m) ELSE <<>>

\* (fault: an item whose key the heap holds is not inserted)
heap_insert_unique(items, item, m) ==
  IF \E k \in DOMAIN items : items[k][1] = item[1] THEN items
  ELSE shift_up(Append(items, item), Len(items), m)

\* BinaryHeap.insert
heap_insert(items, item, m) ==
  shift_up(Append(items, item), Len(items), m)

\* (fault: the last item for the first)
heap_peek_last(items) == At(items, -1)

\* BinaryHeap.peek on a non-empty heap
heap_peek(items) == At(items, 0)

\* BinaryHeap.pop on a non-empty heap: the item returned and the items left
heap_pop(items, m) ==
  LET swapped == swap(items, 0, -1)
  IN [item  |-> swapped[Len(swapped)],
      items |-> shift_down(SubSeq(swapped, 1, Len(swapped) - 1), 0, m)]

\* (fault: no test of the length; _swap(items, 0, -1) on an empty list)
pop_unchecked(items, m) ==
  IF Len(items) = 0 THEN [ret |-> Raise("IndexError"), items |-> items]
  ELSE [ret |-> Return(heap_pop(items, m).item), items |-> heap_pop(items, m).items]

\* BinaryHeap.pop: what the call gives back and the items left
pop(items, m) ==
  IF Len(items) = 0 THEN [ret |-> Raise("LookupError"), items |-> items]
  ELSE [ret |-> Return(heap_pop(items, m).item), items |-> heap_pop(items, m).items]

\* BinaryHeap.peek: what the call gives back
peek(items) ==
  IF Len(items) = 0 THEN Raise("LookupError") ELSE Return(heap_peek(items))

\* ------------------------------------------------------------------------
\* dijkstra_sssp: the locals of one run as a record

\* _init(graph), dist[source] = 0, heap = heap_type(), heap.insert(...), num_finalized = 0
dj_start(g, s) ==
  [dist |-> SetItem([n \in g.nodes |-> Inf], s, 0),
   pred |-> [n \in g.nodes |-> None],
   finalized |-> [n \in g.nodes |-> FALSE],
   heap |-> heap_insert(<<>>, <<0, s>>, FALSE),
   num_finalized |-> 0,
   exc |-> "none"]

\* (fault: the loop goes on with an empty heap)
dj_running_empty_heap(g, st) ==
  st.exc = "none" /\ st.num_finalized < number_of_nodes(g)

\* the condition of the main loop
dj_running(g, st) ==
  st.exc = "none" /\ st.num_finalized < number_of_nodes(g) /\ Len(st.heap) > 0

\* `for _, v, edge_attrs in graph.edges(u, data=True)' over the edges es still to come
RECURSIVE dj_relax(_, _, _)
dj_relax(g, es, st) ==
  IF es = <<>> THEN st
  ELSE LET u == es[1][1]
           v == es[1][2]
           nd == Plus(st.dist[u], g.w[es[1]])
       IN IF Less(nd, st.dist[v])
          THEN dj_relax(g, Tail(es),
                        [st EXCEPT !.dist = [@ EXCEPT ![v] = nd],
                                   !.heap = heap_insert(@, <<nd, v>>, FALSE),
                                   !.pred = [@ EXCEPT ![v] = u]])
          ELSE dj_relax(g, Tail(es), st)

\* (fault: no test `if finalized[u]: continue')
dj_step_refinalize(g, st) ==
  LET popped == heap_pop(st.heap, FALSE)
      u == popped.item[2]
  IN dj_relax(g, edges(g, u),
              [st EXCEPT !.heap = popped.items,
                         !.finalized = [@ EXCEPT ![u] = TRUE],
                         !.num_finalized = @ + 1])

\* one iteration of the main loop; heap.pop() raises LookupError on an
\* empty heap
dj_step(g, st) ==
  IF Len(st.heap) = 0 THEN [st EXCEPT !.exc = "LookupError"]
  ELSE
  LET popped == heap_pop(st.heap, FALSE)
      u == popped.item[2]
      st1 == [st EXCEPT !.heap = popped.items]
  IN IF u \notin DOMAIN st.finalized THEN [st1 EXCEPT !.exc = "KeyError"]
     ELSE IF st.finalized[u] THEN st1
     ELSE dj_relax(g, edges(g, u),
                   [st1 EXCEPT !.finalized = [@ EXCEPT ![u] = TRUE],
                               !.num_finalized = @ + 1])

RECURSIVE dj_main_loop(_, _)
dj_main_loop(g, st) ==
  IF dj_running(g, st) THEN dj_main_loop(g, dj_step(g, st)) ELSE st

dijkstra_shortest_paths(g, s) ==
  LET st == dj_main_loop(g, dj_start(g, s))
  IN IF st.exc = "none" THEN Return(DistAndPred(st.dist, st.pred)) ELSE Raise(st.exc)

\* ------------------------------------------------------------------------
\* johnsons_apsp (and the supersource of has_negative_cycle)

\* (fault: the preferred name taken without the test `if ss in graph')
supersource_name_unchecked(g, name, name_asctime) == name

\* the name of the supersource: the preferred one, else the one with
\* time.asctime() appended, else none (the code raises Exception)
supersource_name(g, name, name_asctime) ==
  IF name \notin g.nodes THEN name
  ELSE IF name_asctime \notin g.nodes THEN name_asctime
  ELSE None

\* `for node in graph.nodes_iter(): graph.add_edge(ss, node, {weight: 0})'
RECURSIVE add_supersource_edges(_, _, _)
add_supersource_edges(g, s, ns) ==
  IF ns = <<>> THEN g
  ELSE add_supersource_edges(add_edge(g, s, Head(ns), 0), s, Tail(ns))

\* add_node(ss), the zero-weight edges, remove_edge(ss, ss); k is the place
\* of ss in the iteration order
add_supersource(g, s, k) ==
  LET g1 == add_node(g, s, k)
  IN remove_edge(add_supersource_edges(g1, s, nodes_iter(g1)), s, s)

\* _reweight_edges_using_node_weights
\* _reweight_edges_using_node_weights: every edge (u, v) that edges_iter
\* yields gets weight + node_weight[u] - node_weight[v]; in a Graph the
\* attribute dict is the one of adj[u][v] and of adj[v][u]
reweight_edges_using_node_weights(g, nw) ==
  [g EXCEPT !.w = [e \in DOMAIN @ |->
     LET y == IF g.directed \/ Pos(g, e[1]) <= Pos(g, e[2]) THEN e ELSE <<e[2], e[1]>>
     IN Minus(Plus(@[e], nw[y[1]]), nw[y[2]])]]

\* (fault: the signs of the two potentials exchanged)
undo_reweighting_swapped(d, nwu, nwv) == Minus(Plus(d, nwu), nwv)

\* dist[u][v] - node_weight[u] + node_weight[v], in floats
undo_reweighting(d, nwu, nwv) == Plus(Minus(d, nwu), nwv)

\* ------------------------------------------------------------------------
\* The caller's graphs
NodeSets == {1..n : n \in 0..MaxNodes}

\* directed graphs (DiGraph): at most MaxEdges edges, self-loops included
EdgeSets(N) == {E \in SUBSET (N \X N) : Cardinality(E) <= MaxEdges}

\* undirected graphs (Graph): at most MaxEdges edges {u, v}, each one entry
\* of adj[u] and of adj[v] that share the weight
UndirectedEdgeSets(N) ==
  {U \in SUBSET {{u, v} : u, v \in N} : Cardinality(U) <= MaxEdges}

Both(U) == {e \in UNION {x \X x : x \in U} : {e[1], e[2]} \in U}

\* The iteration orders explored: by ascending and by descending name.  Graphs
\* holds every labelling of every graph, so each graph's nodes and edges are
\* met in every order that an order of its nodes induces.
SortedSeq(N) ==
  CHOOSE q \in [1..Cardinality(N) -> N] : \A a, b \in 1..Cardinality(N) : a < b => q[a] < q[b]

Orders(N) ==
  {SortedSeq(N), [k \in 1..Cardinality(N) |-> SortedSeq(N)[Cardinality(N) + 1 - k]]}

DirectedGraphs ==
  UNION {UNION {{[directed |-> TRUE, nodes |-> N, w |-> wf, order |-> o] : wf \in [E -> Weights], o \in Orders(N)}
                : E \in EdgeSets(N)}
         : N \in NodeSets}

UndirectedGraphs ==
  UNION {UNION {{[directed |-> FALSE, nodes |-> N,
                  w |-> [e \in Both(U) |-> wf[{e[1], e[2]}]],
                  order |-> o] : wf \in [U -> Weights], o \in Orders(N)}
                : U \in UndirectedEdgeSets(N)}
         : N \in NodeSets}

Graphs == DirectedGraphs \cup UndirectedGraphs

\* the sources a caller asks for: the nodes, and one name that is no node
Sources(g) == g.nodes \cup {MaxNodes + 1}

\* for the runs of dijkstra_shortest_paths alone, also the graphs of one node
\* more (no self-loops, weights that Dijkstra's algorithm admits): the
\* smallest on which the order of finalization decides the distances, an old
\* heap entry is met before the loop ends, and an undirected graph has a
\* node two edges away beside a node out of reach
LargerGraphs ==
  LET N == 1..(MaxNodes + 1)
      W == {x \in Weights : x >= 0}
      o == [k \in N |-> k]
  IN (UNION {{[directed |-> TRUE, nodes |-> N, w |-> wf, order |-> o] : wf \in [E -> W]}
             : E \in {F \in SUBSET {e \in N \X N : e[1] # e[2]} :
                         Cardinality(F) = MaxEdges + 1}})
     \cup
     (UNION {{[directed |-> FALSE, nodes |-> N,
               w |-> [e \in Both(U) |-> wf[{e[1], e[2]}]], order |-> o] : wf \in [U -> W]}
             : U \in {F \in SUBSET {{u, v} : u, v \in N} :
                         Cardinality(F) = MaxEdges /\ \A x \in F : Cardinality(x) = 2}})

\* the graphs that already hold a node named like a supersource: the
\* preferred name alone, or with the name that time.asctime() gives at the
\* call as well; beside them possibly one ordinary node and a few edges
MaxReservedEdges == 1
MaxItems == 4
MaxInserts == 4

ReservedNodeSets ==
  {R \cup B : R \in {{TempSupersource}, {TempSupersource, TempSupersourceAsctime},
                     {Supersource}, {Supersource, SupersourceAsctime}},
              B \in {{}, {1}}}

ReservedGraphs ==
  UNION {(UNION {{[directed |-> TRUE, nodes |-> N, w |-> wf, order |-> o] :
                     wf \in [E -> Weights], o \in Orders(N)}
                 : E \in {F \in SUBSET (N \X N) : Cardinality(F) <= MaxReservedEdges}})
         \cup
         (UNION {{[directed |-> FALSE, nodes |-> N,
                   w |-> [e \in Both(U) |-> wf[{e[1], e[2]}]], order |-> o] :
                     wf \in [U -> Weights], o \in Orders(N)}
                 : U \in {F \in SUBSET {{u, v} : u, v \in N} :
                             Cardinality(F) <= MaxReservedEdges}})
         : N \in ReservedNodeSets}

InitWith(G) ==
  /\ \E g \in G : store = [caller |-> g, work |-> EmptyGraph]
  /\ graph = "caller"
  /\ op = "idle"
  /\ pc = "idle"
  /\ source = None
  /\ ss = None
  /\ i = 0
  /\ dist = <<>>
  /\ pred = <<>>
  /\ finalized = <<>>
  /\ num_finalized = 0
  /\ heap = <<>>
  /\ max_ = FALSE
  /\ node_weight = <<>>
  /\ jdist = <<>>
  /\ jpred = <<>>
  /\ iter = <<>>
  /\ ret = NoReturn
  /\ first = NoReturn
  /\ place = {}
  /\ runs = <<>>
  /\ _items = {} /\ _leader = <<>> /\ _followers = <<>> /\ _cluster_size = <<>>
  /\ united = {}
  /\ lower_half = <<>> /\ higher_half = <<>> /\ inserted = <<>>

Init == InitWith(Graphs)

InitDijkstra == InitWith(Graphs \cup LargerGraphs)

InitReserved == InitWith(ReservedGraphs)

InitTwice == InitWith(Graphs \cup ReservedGraphs)

bf_vars == <<i>>
dj_vars == <<finalized, num_finalized, heap, max_>>
j_vars == <<node_weight, jdist, jpred, iter>>
run_vars == <<first, place, runs>>
uf_vars == <<_items, _leader, _followers, _cluster_size, united>>
mm_vars == <<lower_half, higher_half, inserted>>

\* graph_.copy(): a new object with the same nodes, edges and weights; the
\* local name it is bound to
copy(st) == [st EXCEPT !.work = st.caller]

\* (fault: graph = graph_, no copy)
copied_alias == "caller"

copied == "work"

\* where add_node places a new node in the iteration order of g: the code's
\* dictionaries decide; first and last are explored
Places(g) == {0, Len(g.order)}

\* the places of the supersource `name' in a copy of the caller's graph: the
\* same operations on equal dictionaries place the preferred name where they
\* placed it before; the name that ends in time.asctime() is another key
\* when the clock has moved on
places(g, name, preferred) ==
  IF place # {} /\ name = preferred THEN place ELSE Places(g)

\* ---- bellman_ford_shortest_paths(graph, source) ----
CallBellmanFord ==
  /\ pc = "idle"
  /\ \E s \in Sources(store.caller) : source' = s
  /\ op' = "bellman_ford"
  /\ graph' = "caller"
  /\ pc' = "bf_init"
  /\ UNCHANGED <<store, ss, dist, pred, ret>>
  /\ UNCHANGED <<bf_vars, dj_vars, j_vars>>
  /\ UNCHANGED run_vars
  /\ UNCHANGED <<uf_vars, mm_vars>>

BFInit ==
  /\ pc = "bf_init"
  /\ LET dp == bf_init(store[graph], source)
     IN dist' = dp.dist /\ pred' = dp.pred
  /\ i' = 0
  /\ pc' = "bf_loop"
  /\ UNCHANGED <<store, graph, op, source, ss, ret>>
  /\ UNCHANGED <<dj_vars, j_vars>>
  /\ UNCHANGED run_vars
  /\ UNCHANGED <<uf_vars, mm_vars>>

BFPass ==
  /\ pc = "bf_loop"
  /\ i < bf_passes(store[graph])
  /\ LET dp == bf_pass(store[graph], DistAndPred(dist, pred))
     IN dist' = dp.dist /\ pred' = dp.pred
  /\ i' = i + 1
  /\ UNCHANGED <<store, graph, op, source, pc, ss, ret>>
  /\ UNCHANGED <<dj_vars, j_vars>>
  /\ UNCHANGED run_vars
  /\ UNCHANGED <<uf_vars, mm_vars>>

\* the last loop raises; has_negative_cycle catches, johnson does not
BFRaise ==
  /\ pc = "bf_loop"
  /\ ~(i < bf_passes(store[graph]))
  /\ bf_negative_cycle(store[graph], DistAndPred(dist, pred))
  /\ ret' = IF op = "has_negative_cycle" THEN Return(TRUE) ELSE Raise("NegativeCycleError")
  /\ pc' = "done"
  /\ UNCHANGED <<store, graph, op, source, ss, dist, pred>>
  /\ UNCHANGED <<bf_vars, dj_vars, j_vars>>
  /\ UNCHANGED run_vars
  /\ UNCHANGED <<uf_vars, mm_vars>>

BFReturn ==
  /\ pc = "bf_loop"
  /\ ~(i < bf_passes(store[graph]))
  /\ ~bf_negative_cycle(store[graph], DistAndPred(dist, pred))
  /\ IF op = "johnson"
     THEN /\ node_weight' = dist
          /\ pc' = "j_remove"
          /\ ret' = ret
     ELSE /\ ret' = IF op = "has_negative_cycle" THEN Return(FALSE)
                    ELSE Return(DistAndPred(dist, pred))
          /\ pc' = "done"
          /\ node_weight' = node_weight
  /\ UNCHANGED <<store, graph, op, source, ss, dist, pred>>
  /\ UNCHANGED <<bf_vars, dj_vars, jdist, jpred, iter>>
  /\ UNCHANGED run_vars
  /\ UNCHANGED <<uf_vars, mm_vars>>

\* ---- has_negative_cycle(graph_) ----
CallHasNegativeCycle ==
  /\ pc = "idle"
  /\ op' = "has_negative_cycle"
  /\ store' = copy(store)
  /\ graph' = copied
  /\ pc' = "h_add"
  /\ UNCHANGED <<source, ss, dist, pred, ret>>
  /\ UNCHANGED <<bf_vars, dj_vars, j_vars>>
  /\ UNCHANGED run_vars
  /\ UNCHANGED <<uf_vars, mm_vars>>

HAddSupersource ==
  /\ pc = "h_add"
  /\ LET name == supersource_name(store[graph], Supersource, SupersourceAsctime)
     IN IF name = None
        THEN /\ ret' = Raise("Exception")
             /\ pc' = "done"
             /\ UNCHANGED <<store, ss, source, place>>
        ELSE /\ \E k \in places(store[graph], name, Supersource) :
                   /\ store' = [store EXCEPT ![graph] = add_supersource(@, name, k)]
                   /\ place' = IF name = Supersource THEN {k} ELSE place
             /\ ss' = name
             /\ source' = name
             /\ pc' = "bf_init"
             /\ ret' = ret
  /\ UNCHANGED <<graph, op, dist, pred>>
  /\ UNCHANGED <<bf_vars, dj_vars, j_vars>>
  /\ UNCHANGED <<first, runs>>
  /\ UNCHANGED <<uf_vars, mm_vars>>

\* ---- dijkstra_shortest_paths(graph, source) ----
CallDijkstra ==
  /\ pc = "idle"
  /\ \E s \in Sources(store.caller) : source' = s
  /\ op' = "dijkstra"
  /\ graph' = "caller"
  /\ pc' = "dj_init"
  /\ UNCHANGED <<store, ss, dist, pred, ret>>
  /\ UNCHANGED <<bf_vars, dj_vars, j_vars>>
  /\ UNCHANGED run_vars
  /\ UNCHANGED <<uf_vars, mm_vars>>

dj_locals == [dist |-> dist, pred |-> pred, finalized |-> finalized, heap |-> heap,
              num_finalized |-> num_finalized, exc |-> "none"]

DijkstraInit ==
  /\ pc = "dj_init"
  /\ LET st == dj_start(store[graph], source)
     IN /\ dist' = st.dist
        /\ pred' = st.pred
        /\ finalized' = st.finalized
        /\ heap' = st.heap
        /\ num_finalized' = st.num_finalized
  /\ max_' = FALSE
  /\ pc' = "dj_loop"
  /\ UNCHANGED <<store, graph, op, source, ss, ret>>
  /\ UNCHANGED <<bf_vars, j_vars>>
  /\ UNCHANGED run_vars
  /\ UNCHANGED <<uf_vars, mm_vars>>

DijkstraStep ==
  /\ pc = "dj_loop"
  /\ dj_running(store[graph], dj_locals)
  /\ LET st == dj_step(store[graph], dj_locals)
     IN /\ dist' = st.dist
        /\ pred' = st.pred
        /\ finalized' = st.finalized
        /\ heap' = st.heap
        /\ num_finalized' = st.num_finalized
        /\ IF st.exc = "none"
           THEN pc' = pc /\ ret' = ret
           ELSE pc' = "done" /\ ret' = Raise(st.exc)
  /\ UNCHANGED <<store, graph, op, source, ss, max_>>
  /\ UNCHANGED <<bf_vars, j_vars>>
  /\ UNCHANGED run_vars
  /\ UNCHANGED <<uf_vars, mm_vars>>

DijkstraReturn ==
  /\ pc = "dj_loop"
  /\ ~dj_running(store[graph], dj_locals)
  /\ IF op = "johnson"
     THEN /\ jdist' = SetItem(jdist, source, dist)
          /\ jpred' = SetItem(jpred, source, pred)
          /\ iter' = Tail(iter)
          /\ pc' = "j_loop"
          /\ ret' = ret
     ELSE /\ ret' = Return(DistAndPred(dist, pred))
          /\ pc' = "done"
          /\ UNCHANGED <<jdist, jpred, iter>>
  /\ UNCHANGED <<store, graph, op, source, ss, dist, pred, node_weight>>
  /\ UNCHANGED <<bf_vars, dj_vars>>
  /\ UNCHANGED run_vars
  /\ UNCHANGED <<uf_vars, mm_vars>>

\* ---- johnsons_all_pairs_shortest_paths(graph_) ----
CallJohnson ==
  /\ pc = "idle"
  /\ op' = "johnson"
  /\ store' = copy(store)
  /\ graph' = copied
  /\ pc' = "j_add"
  /\ UNCHANGED <<source, ss, dist, pred, ret>>
  /\ UNCHANGED <<bf_vars, dj_vars, j_vars>>
  /\ UNCHANGED run_vars
  /\ UNCHANGED <<uf_vars, mm_vars>>

\* _compute_node_weights: _add_supersource, then bellman_ford_sssp.solve(graph, ss)
JAddSupersource ==
  /\ pc = "j_add"
  /\ LET name == supersource_name(store[graph], TempSupersource, TempSupersourceAsctime)
     IN IF name = None
        THEN /\ ret' = Raise("Exception")
             /\ pc' = "done"
             /\ UNCHANGED <<store, ss, source, place>>
        ELSE /\ \E k \in places(store[graph], name, TempSupersource) :
                   /\ store' = [store EXCEPT ![graph] = add_supersource(@, name, k)]
                   /\ place' = IF name = TempSupersource THEN {k} ELSE place
             /\ ss' = name
             /\ source' = name
             /\ pc' = "bf_init"
             /\ ret' = ret
  /\ UNCHANGED <<graph, op, dist, pred>>
  /\ UNCHANGED <<bf_vars, dj_vars, j_vars>>
  /\ UNCHANGED <<first, runs>>
  /\ UNCHANGED <<uf_vars, mm_vars>>

\* _compute_node_weights after the solve: remove_node(ss), del(node_weight[ss])
JRemoveSupersource ==
  /\ pc = "j_remove"
  /\ store' = [store EXCEPT ![graph] = remove_node(@, ss)]
  /\ node_weight' = DelItem(node_weight, ss)
  /\ pc' = "j_reweight"
  /\ UNCHANGED <<graph, op, source, ss, dist, pred, jdist, jpred, iter, ret>>
  /\ UNCHANGED <<bf_vars, dj_vars>>
  /\ UNCHANGED run_vars
  /\ UNCHANGED <<uf_vars, mm_vars>>

JReweight ==
  /\ pc = "j_reweight"
  /\ store' = [store EXCEPT ![graph] = reweight_edges_using_node_weights(@, node_weight)]
  /\ jdist' = <<>>
  /\ jpred' = <<>>
  /\ iter' = nodes_iter(store[graph])
  /\ pc' = "j_loop"
  /\ UNCHANGED <<graph, op, source, ss, dist, pred, node_weight, ret>>
  /\ UNCHANGED <<bf_vars, dj_vars>>
  /\ UNCHANGED run_vars
  /\ UNCHANGED <<uf_vars, mm_vars>>

\* `for node in graph.nodes_iter(): ... dijkstra_sssp.solve(graph, node)'
JNextSource ==
  /\ pc = "j_loop"
  /\ iter # <<>>
  /\ source' = Head(iter)
  /\ pc' = "dj_init"
  /\ UNCHANGED <<store, graph, op, ss, dist, pred, ret>>
  /\ UNCHANGED <<bf_vars, dj_vars, j_vars>>
  /\ UNCHANGED run_vars
  /\ UNCHANGED <<uf_vars, mm_vars>>

\* the loops that undo the reweighting in dist, and the return
JUndoAndReturn ==
  /\ pc = "j_loop"
  /\ iter = <<>>
  /\ jdist' = [u \in DOMAIN jdist |->
                 [v \in DOMAIN jdist[u] |->
                    undo_reweighting(jdist[u][v], node_weight[u], node_weight[v])]]
  /\ ret' = Return(DistAndPred(jdist', jpred))
  /\ pc' = "done"
  /\ UNCHANGED <<store, graph, op, source, ss, dist, pred, node_weight, jpred, iter>>
  /\ UNCHANGED <<bf_vars, dj_vars>>
  /\ UNCHANGED run_vars
  /\ UNCHANGED <<uf_vars, mm_vars>>

\* ---- the caller makes the call that has ended once more ----
\* the same function on the same graph object with the same arguments
CallAgain ==
  /\ pc = "done"
  /\ first = NoReturn
  /\ op \in {"bellman_ford", "dijkstra", "johnson"}
  /\ first' = ret
  /\ ret' = NoReturn
  /\ IF op = "johnson"
     THEN store' = copy(store) /\ graph' = copied /\ pc' = "j_add"
     ELSE /\ store' = store /\ graph' = "caller"
          /\ pc' = IF op = "bellman_ford" THEN "bf_init" ELSE "dj_init"
  /\ UNCHANGED <<op, source, ss, dist, pred, place, runs>>
  /\ UNCHANGED <<bf_vars, dj_vars, j_vars>>
  /\ UNCHANGED <<uf_vars, mm_vars>>

\* ---- johnson's Dijkstra runs with their steps interleaved ----
\* `dist[node], pred[node] = dijkstra_sssp.solve(graph, node)': the slots of
\* the nested dicts dp that the run from source s, ended with locals st, writes
\* (fault: the run writes the entries of the other sources too)
set_slots_all(dp, s, st) ==
  DistAndPred([x \in DOMAIN dp.dist \cup {s} |-> st.dist],
              [x \in DOMAIN dp.pred \cup {s} |-> st.pred])

set_slots(dp, s, st) ==
  DistAndPred(SetItem(dp.dist, s, st.dist), SetItem(dp.pred, s, st.pred))

\* the run from some node that has none yet begins
ParStart ==
  /\ op = "johnson" /\ pc = "j_loop"
  /\ \E s \in {iter[k] : k \in DOMAIN iter} \ DOMAIN runs :
        runs' = SetItem(runs, s, dj_start(store[graph], s))
  /\ UNCHANGED <<store, graph, op, source, pc, ss, dist, pred, ret, first, place>>
  /\ UNCHANGED <<bf_vars, dj_vars, j_vars>>
  /\ UNCHANGED <<uf_vars, mm_vars>>

\* some run makes one iteration of its main loop
ParStep ==
  /\ op = "johnson" /\ pc = "j_loop"
  /\ \E s \in DOMAIN runs :
        /\ dj_running(store[graph], runs[s])
        /\ LET st == dj_step(store[graph], runs[s])
           IN /\ runs' = [runs EXCEPT ![s] = st]
              /\ IF st.exc = "none"
                 THEN pc' = pc /\ ret' = ret
                 ELSE pc' = "done" /\ ret' = Raise(st.exc)
  /\ UNCHANGED <<store, graph, op, source, ss, dist, pred, first, place>>
  /\ UNCHANGED <<bf_vars, dj_vars, j_vars>>
  /\ UNCHANGED <<uf_vars, mm_vars>>

\* some run leaves its main loop and its result is stored
ParFinish ==
  /\ op = "johnson" /\ pc = "j_loop"
  /\ \E s \in DOMAIN runs :
        /\ ~dj_running(store[graph], runs[s])
        /\ LET dp == set_slots(DistAndPred(jdist, jpred), s, runs[s])
           IN jdist' = dp.dist /\ jpred' = dp.pred
        /\ runs' = DelItem(runs, s)
        /\ iter' = SelectSeq(iter, LAMBDA n : n # s)
  /\ UNCHANGED <<store, graph, op, source, pc, ss, dist, pred, ret, first, place>>
  /\ UNCHANGED <<bf_vars, dj_vars, node_weight>>
  /\ UNCHANGED <<uf_vars, mm_vars>>

\* ---- a UnionFindSimpleImpl ----
\* UnionFindSimpleImpl(items)
uf_new(items) ==
  [_items |-> items,
   _leader |-> [x \in items |-> x],
   _followers |-> [x \in items |-> <<x>>],
   _cluster_size |-> [x \in items |-> 1]]

uf_find(uf, item) == uf._leader[item]

\* (fault: only item_b follows the new leader)
uf_union_one(uf, item_a, item_b) ==
  [uf EXCEPT !._leader = [@ EXCEPT ![item_b] = uf._leader[item_a]]]

uf_union(uf, item_a, item_b) ==
  LET la == uf._leader[item_a]
      lb == uf._leader[item_b]
      swap_ == uf._cluster_size[lb] > uf._cluster_size[la]
      leader_a == IF swap_ THEN lb ELSE la
      leader_b == IF swap_ THEN la ELSE lb
      moved == {uf._followers[leader_b][k] : k \in DOMAIN uf._followers[leader_b]}
  IN IF la = lb THEN uf
     ELSE [_items |-> uf._items,
           _leader |-> [x \in DOMAIN uf._leader |->
                          IF x \in moved THEN leader_a ELSE uf._leader[x]],
           _followers |-> DelItem(SetItem(uf._followers, leader_a,
                                          uf._followers[leader_a] \o uf._followers[leader_b]),
                                  leader_b),
           _cluster_size |-> DelItem(SetItem(uf._cluster_size, leader_a,
                                             uf._cluster_size[leader_a] + uf._cluster_size[leader_b]),
                                     leader_b)]

uf_joined(uf, item_a, item_b) ==
  IF uf_find(uf, item_a) = uf_find(uf, item_b) THEN TRUE ELSE FALSE

uf_num_clusters(uf) == Cardinality(DOMAIN uf._cluster_size)

\* the object
self_uf == [_items |-> _items, _leader |-> _leader, _followers |-> _followers,
            _cluster_size |-> _cluster_size]

not_uf_vars == <<store, graph, source, ss, dist, pred, bf_vars, dj_vars, j_vars,
                 run_vars, mm_vars>>

InitUnionFind ==
  /\ \E n \in 0..MaxItems :
        /\ _items = uf_new(1..n)._items
        /\ _leader = uf_new(1..n)._leader
        /\ _followers = uf_new(1..n)._followers
        /\ _cluster_size = uf_new(1..n)._cluster_size
  /\ united = {}
  /\ op = "UnionFindSimpleImpl"
  /\ pc = "uf"
  /\ ret = NoReturn
  /\ store = [caller |-> EmptyGraph, work |-> EmptyGraph]
  /\ graph = "caller"
  /\ source = None
  /\ ss = None
  /\ i = 0
  /\ dist = <<>>
  /\ pred = <<>>
  /\ finalized = <<>>
  /\ num_finalized = 0
  /\ heap = <<>>
  /\ max_ = FALSE
  /\ node_weight = <<>>
  /\ jdist = <<>>
  /\ jpred = <<>>
  /\ iter = <<>>
  /\ first = NoReturn
  /\ place = {}
  /\ runs = <<>>
  /\ lower_half = <<>> /\ higher_half = <<>> /\ inserted = <<>>

\* union(item_a, item_b); returns None
UFUnion ==
  /\ pc = "uf"
  /\ \E a, b \in _items :
        /\ LET uf == uf_union(self_uf, a, b)
           IN /\ _leader' = uf._leader
              /\ _followers' = uf._followers
              /\ _cluster_size' = uf._cluster_size
        /\ united' = united \cup {{a, b}}
  /\ op' = "union"
  /\ ret' = Return(None)
  /\ UNCHANGED <<pc, _items, not_uf_vars>>

\* find(item)
UFFind ==
  /\ pc = "uf"
  /\ \E a \in _items : ret' = Return(uf_find(self_uf, a))
  /\ op' = "find"
  /\ UNCHANGED <<pc, uf_vars, not_uf_vars>>

\* joined(item_a, item_b)
UFJoined ==
  /\ pc = "uf"
  /\ \E a, b \in _items : ret' = Return(uf_joined(self_uf, a, b))
  /\ op' = "joined"
  /\ UNCHANGED <<pc, uf_vars, not_uf_vars>>

\* num_clusters()
UFNumClusters ==
  /\ pc = "uf"
  /\ ret' = Return(uf_num_clusters(self_uf))
  /\ op' = "num_clusters"
  /\ UNCHANGED <<pc, uf_vars, not_uf_vars>>

\* ---- a BinaryHeap on its own ----
\* the items: tuples (priority_number, data)
Items == (1..MaxKey) \X {1, 2}

RECURSIVE Lists(_)
Lists(n) ==
  IF n = 0 THEN {<<>>} ELSE Lists(n - 1) \cup {Append(l, x) : l \in {q \in Lists(n - 1) : Len(q) = n - 1}, x \in Items}

\* BinaryHeap(), BinaryHeap(list_) and the same with max_=True
InitHeap ==
  /\ \E given \in BOOLEAN, l \in Lists(MaxHeapLen), m \in BOOLEAN :
        /\ (~given => l = <<>>)
        /\ heap = heap_new(given, l, m)
        /\ max_ = m
  /\ op = "BinaryHeap"
  /\ pc = "heap"
  /\ ret = NoReturn
  /\ store = [caller |-> EmptyGraph, work |-> EmptyGraph]
  /\ graph = "caller"
  /\ source = None
  /\ ss = None
  /\ i = 0
  /\ dist = <<>>
  /\ pred = <<>>
  /\ finalized = <<>>
  /\ num_finalized = 0
  /\ node_weight = <<>>
  /\ jdist = <<>>
  /\ jpred = <<>>
  /\ iter = <<>>
  /\ first = NoReturn
  /\ place = {}
  /\ runs = <<>>
  /\ _items = {} /\ _leader = <<>> /\ _followers = <<>> /\ _cluster_size = <<>>
  /\ united = {}
  /\ lower_half = <<>> /\ higher_half = <<>> /\ inserted = <<>>

not_heap_vars == <<store, graph, source, ss, dist, pred, finalized, num_finalized,
                   bf_vars, j_vars, run_vars, uf_vars, mm_vars>>

\* insert(item); returns None
HeapInsert ==
  /\ pc = "heap"
  /\ Len(heap) < MaxHeapLen
  /\ \E item \in Items : heap' = heap_insert(heap, item, max_)
  /\ op' = "insert"
  /\ ret' = Return(None)
  /\ UNCHANGED <<pc, max_, not_heap_vars>>

\* pop()
HeapPop ==
  /\ pc = "heap"
  /\ ret' = pop(heap, max_).ret
  /\ heap' = pop(heap, max_).items
  /\ op' = "pop"
  /\ UNCHANGED <<pc, max_, not_heap_vars>>

\* peek()
HeapPeek ==
  /\ pc = "heap"
  /\ ret' = peek(heap)
  /\ op' = "peek"
  /\ UNCHANGED <<pc, heap, max_, not_heap_vars>>

\* len(heap)
HeapLen ==
  /\ pc = "heap"
  /\ ret' = Return(Len(heap))
  /\ op' = "len"
  /\ UNCHANGED <<pc, heap, max_, not_heap_vars>>

\* ---- a MedianMaintainer ----
\* EvenChoice
EvenChoice == {"Lower", "Higher", "Both", "Average"}

\* MedianMaintainer(): two empty heaps, lower_half a max heap
mm_new == [lower_half |-> heap_new(FALSE, <<>>, TRUE),
           higher_half |-> heap_new(FALSE, <<>>, FALSE)]

mm_len(mm) == Len(mm.lower_half) + Len(mm.higher_half)

\* median(if_even); the average of two items that are tuples is a TypeError
mm_median(mm, if_even) ==
  IF mm_len(mm) = 0 THEN Raise("LookupError")
  ELSE IF Len(mm.lower_half) > Len(mm.higher_half) THEN peek(mm.lower_half)
  ELSE IF Len(mm.lower_half) < Len(mm.higher_half) THEN peek(mm.higher_half)
  ELSE IF if_even = "Higher" THEN peek(mm.higher_half)
  ELSE IF if_even = "Both"
       THEN Return(<<peek(mm.lower_half).val, peek(mm.higher_half).val>>)
  ELSE IF if_even = "Average" THEN Raise("TypeError")
  ELSE peek(mm.lower_half)

\* (fault: no transfer of the top item when a heap gets two items longer)
mm_insert_no_transfer(mm, item) ==
  LET m == mm_median(mm, "Lower")
  IN IF m.kind = "raise" \/ TupleLt(item, m.val)
     THEN [mm EXCEPT !.lower_half = heap_insert(@, item, TRUE)]
     ELSE [mm EXCEPT !.higher_half = heap_insert(@, item, FALSE)]

\* insert(item)
mm_insert(mm, item) ==
  LET m == mm_median(mm, "Lower")
  IN IF m.kind = "raise"
     THEN [mm EXCEPT !.lower_half = heap_insert(@, item, TRUE)]
     ELSE IF TupleLt(item, m.val)
     THEN LET lo == heap_insert(mm.lower_half, item, TRUE)
          IN IF Len(lo) > Len(mm.higher_half) + 1
             THEN [lower_half |-> pop(lo, TRUE).items,
                   higher_half |-> heap_insert(mm.higher_half, pop(lo, TRUE).ret.val, FALSE)]
             ELSE [mm EXCEPT !.lower_half = lo]
     ELSE IF TupleLt(m.val, item)
     THEN LET hi == heap_insert(mm.higher_half, item, FALSE)
          IN IF Len(hi) > Len(mm.lower_half) + 1
             THEN [lower_half |-> heap_insert(mm.lower_half, pop(hi, FALSE).ret.val, TRUE),
                   higher_half |-> pop(hi, FALSE).items]
             ELSE [mm EXCEPT !.higher_half = hi]
     ELSE IF Len(mm.higher_half) < Len(mm.lower_half)
          THEN [mm EXCEPT !.higher_half = heap_insert(@, item, FALSE)]
          ELSE [mm EXCEPT !.lower_half = heap_insert(@, item, TRUE)]

\* the object
self_mm == [lower_half |-> lower_half, higher_half |-> higher_half]

not_mm_vars == <<store, graph, source, ss, dist, pred, bf_vars, dj_vars, j_vars,
                 run_vars, uf_vars>>

InitMedianMaintainer ==
  /\ lower_half = mm_new.lower_half
  /\ higher_half = mm_new.higher_half
  /\ inserted = <<>>
  /\ op = "MedianMaintainer"
  /\ pc = "mm"
  /\ ret = NoReturn
  /\ store = [caller |-> EmptyGraph, work |-> EmptyGraph]
  /\ graph = "caller"
  /\ source = None
  /\ ss = None
  /\ i = 0
  /\ dist = <<>>
  /\ pred = <<>>
  /\ finalized = <<>>
  /\ num_finalized = 0
  /\ heap = <<>>
  /\ max_ = FALSE
  /\ node_weight = <<>>
  /\ jdist = <<>>
  /\ jpred = <<>>
  /\ iter = <<>>
  /\ first = NoReturn
  /\ place = {}
  /\ runs = <<>>
  /\ _items = {} /\ _leader = <<>> /\ _followers = <<>> /\ _cluster_size = <<>>
  /\ united = {}

\* insert(item); returns None
MMInsert ==
  /\ pc = "mm"
  /\ Len(inserted) < MaxInserts
  /\ \E item \in Items :
        /\ lower_half' = mm_insert(self_mm, item).lower_half
        /\ higher_half' = mm_insert(self_mm, item).higher_half
        /\ inserted' = Append(inserted, item)
  /\ op' = "insert"
  /\ ret' = Return(None)
  /\ UNCHANGED <<pc, not_mm_vars>>

\* median() and median(if_even)
MMMedian ==
  /\ pc = "mm"
  /\ \E if_even \in EvenChoice :
        /\ ret' = mm_median(self_mm, if_even)
        /\ op' = IF if_even = "Lower" THEN "median" ELSE "median(if_even)"
  /\ UNCHANGED <<pc, mm_vars, not_mm_vars>>

\* len(maintainer)
MMLen ==
  /\ pc = "mm"
  /\ ret' = Return(mm_len(self_mm))
  /\ op' = "len"
  /\ UNCHANGED <<pc, mm_vars, not_mm_vars>>

BFSteps == BFInit \/ BFPass \/ BFRaise \/ BFReturn
DijkstraSteps == DijkstraInit \/ DijkstraStep \/ DijkstraReturn
JohnsonSteps ==
  JAddSupersource \/ JRemoveSupersource \/ JReweight \/ JNextSource \/ JUndoAndReturn

Next ==
  \/ CallBellmanFord \/ CallHasNegativeCycle \/ CallDijkstra \/ CallJohnson
  \/ HAddSupersource
  \/ BFSteps \/ DijkstraSteps \/ JohnsonSteps

Spec == Init /\ [][Next]_vars

\* the single-source solvers and has_negative_cycle alone
NextBF == CallBellmanFord \/ CallHasNegativeCycle \/ HAddSupersource \/ BFSteps
SpecBF == Init /\ [][NextBF]_vars

NextDijkstra == CallDijkstra \/ DijkstraSteps
SpecDijkstra == InitDijkstra /\ [][NextDijkstra]_vars

\* johnsons_all_pairs_shortest_paths alone
NextJohnson == CallJohnson \/ JohnsonSteps \/ BFSteps \/ DijkstraSteps
SpecJohnson == Init /\ [][NextJohnson]_vars

\* a solver called twice on the same graph
NextTwice ==
  \/ CallBellmanFord \/ CallDijkstra \/ CallJohnson \/ CallAgain
  \/ BFSteps \/ DijkstraSteps \/ JohnsonSteps
SpecTwice == InitTwice /\ [][NextTwice]_vars

\* johnsons_all_pairs_shortest_paths with the Dijkstra runs interleaved
NextParallel ==
  \/ CallJohnson \/ JAddSupersource \/ BFSteps \/ JRemoveSupersource \/ JReweight
  \/ ParStart \/ ParStep \/ ParFinish \/ JUndoAndReturn
SpecParallel == Init /\ [][NextParallel]_vars

\* a UnionFindSimpleImpl alone
NextUnionFind == UFUnion \/ UFFind \/ UFJoined \/ UFNumClusters
SpecUnionFind == InitUnionFind /\ [][NextUnionFind]_vars

\* a MedianMaintainer alone
NextMedianMaintainer == MMInsert \/ MMMedian \/ MMLen
SpecMedianMaintainer == InitMedianMaintainer /\ [][NextMedianMaintainer]_vars

\* a BinaryHeap alone
NextHeap == HeapInsert \/ HeapPop \/ HeapPeek \/ HeapLen
SpecHeap == InitHeap /\ [][NextHeap]_vars

\* the two functions that add a supersource, on graphs with reserved names
NextReserved ==
  CallJohnson \/ CallHasNegativeCycle \/ HAddSupersource \/ JohnsonSteps \/ BFSteps \/ DijkstraSteps
SpecReserved == InitReserved /\ [][NextReserved]_vars

\* ------------------------------------------------------------------------
\* Reference notions of graph theory, by enumeration of the simple paths

SetMin(S) == IF S = {} THEN Inf ELSE CHOOSE x \in S : \A y \in S : x <= y

\* the least weight of a simple path from s to t that avoids the nodes
\* `seen' after s, Inf when there is none
RECURSIVE MinSimplePath(_, _, _, _)
MinSimplePath(g, s, t, seen) ==
  IF s = t THEN 0
  ELSE SetMin({LET rest == MinSimplePath(g, e[2], t, seen \cup {e[2]})
               IN IF rest = Inf THEN Inf ELSE g.w[e] + rest
               : e \in {d \in DOMAIN g.w : d[1] = s /\ d[2] \notin seen}})

ShortestPathLength(g, s, t) == MinSimplePath(g, s, t, {s})

Reachable(g, s, t) == ShortestPathLength(g, s, t) # Inf

\* a simple cycle of negative weight passes through c: an edge into c after
\* a simple path from c (in a Graph, a path that is not that edge itself)
NegativeCycleThrough(g, c) ==
  \E e \in DOMAIN g.w :
     LET h == IF g.directed \/ e[1] = e[2] THEN g ELSE remove_edge(g, e[1], e[2])
     IN /\ e[2] = c
        /\ Reachable(h, c, e[1])
        /\ ShortestPathLength(h, c, e[1]) + g.w[e] < 0

HasNegativeCycle(g) == \E c \in g.nodes : NegativeCycleThrough(g, c)

NegativeCycleReachable(g, s) ==
  \E c \in g.nodes : Reachable(g, s, c) /\ NegativeCycleThrough(g, c)

NonNegative(g) == \A e \in DOMAIN g.w : g.w[e] >= 0

Returned == pc = "done" /\ ret.kind = "return"

\* ------------------------------------------------------------------------
\* C1: on a directed graph with no negative cycle
\* johnsons_all_pairs_shortest_paths returns, and its dist[u][v] is, for
\* every pair of nodes, the dist[v] that bellman_ford_shortest_paths gives
\* from source u on the caller's graph, float('inf') for an unreachable v
\* included.
C1_JohnsonAgreesWithBellmanFord ==
  (op = "johnson" /\ pc = "done" /\ store.caller.directed
     /\ ~HasNegativeCycle(store.caller)) =>
     /\ ret.kind = "return"
     /\ DOMAIN ret.val.dist = store.caller.nodes
     /\ \A u \in store.caller.nodes :
          LET bf == bellman_ford_shortest_paths(store.caller, u)
          IN /\ bf.kind = "return"
             /\ DOMAIN ret.val.dist[u] = store.caller.nodes
             /\ \A v \in store.caller.nodes : ret.val.dist[u][v] = bf.val.dist[v]

\* a run that returned on a graph with a negative edge, with a pair at a
\* negative distance and a pair that is unreachable
C1_Witness ==
  /\ op = "johnson" /\ Returned /\ store.caller.directed
  /\ \E u, v \in store.caller.nodes : ret.val.dist[u][v] < 0
  /\ \E u, v \in store.caller.nodes : ret.val.dist[u][v] = Inf
  /\ \E u, v \in store.caller.nodes :
        /\ u # v /\ <<u, v>> \in DOMAIN store.caller.w
        /\ ret.val.dist[u][v] < store.caller.w[<<u, v>>]

\* C2: on a graph with a negative cycle anywhere, johnson's call ends with
\* the NegativeCycleError of its Bellman-Ford step and with nothing else: in
\* no state of the call has the supersource been removed, an edge been
\* reweighted, a Dijkstra run started or an entry of dist / pred been made.
C2_NegativeCycleAbortsJohnson ==
  (op = "johnson" /\ HasNegativeCycle(store.caller)) =>
     /\ pc \in {"j_add", "bf_init", "bf_loop", "done"}
     /\ pc = "done" => ret = Raise("NegativeCycleError")
     /\ \A e \in DOMAIN store.caller.w : store.work.w[e] = store.caller.w[e]
     /\ heap = <<>> /\ finalized = <<>> /\ num_finalized = 0
     /\ jdist = <<>> /\ jpred = <<>>
     /\ node_weight = <<>>

\* C3: no step of any of the four public functions changes the caller's
\* graph object: its nodes, edges, weights (and iteration order) stay as
\* they were, on the returning and on the raising paths alike.
C3_CallerGraphUntouched == [][store'.caller = store.caller]_vars

\* johnson returned, having added and removed a supersource and reweighted
\* edges of the graph object it worked on
C3_Witness ==
  /\ op = "johnson" /\ Returned
  /\ store.work.nodes = store.caller.nodes
  /\ store.work.w # store.caller.w

\* C4: bellman_ford_shortest_paths raises NegativeCycleError exactly when a
\* negative cycle is reachable from the source, and otherwise returns dist
\* and pred; so in each order of enumeration explored.
C4_RaisesIffNegativeCycleReachable ==
  (op = "bellman_ford" /\ pc = "done") =>
     /\ ret.kind \in {"raise", "return"}
     /\ ret.kind = "raise" <=> NegativeCycleReachable(store.caller, source)
     /\ ret.kind = "raise" => ret.val = "NegativeCycleError"
     /\ ret.kind = "return" => DOMAIN ret.val = {"dist", "pred"}

\* C5: has_negative_cycle returns True exactly when the graph has a negative
\* cycle, wherever it lies, else False; no exception leaves it.
C5_HasNegativeCycle ==
  (op = "has_negative_cycle" /\ pc = "done") =>
     /\ ret.kind = "return"
     /\ ret.val = HasNegativeCycle(store.caller)

\* C6: on a graph with no negative weight, dijkstra_shortest_paths returns,
\* for every node reachable from its source, the dist that
\* bellman_ford_shortest_paths returns for it.
C6_DijkstraAgreesWithBellmanFord ==
  (op = "dijkstra" /\ pc = "done" /\ source \in store.caller.nodes
     /\ NonNegative(store.caller)) =>
     LET bf == bellman_ford_shortest_paths(store.caller, source)
     IN /\ ret.kind = "return"
        /\ bf.kind = "return"
        /\ \A t \in store.caller.nodes :
              Reachable(store.caller, source, t) => ret.val.dist[t] = bf.val.dist[t]

\* C7: on a graph with no negative weight, directed or undirected, connected
\* or not, dijkstra_shortest_paths returns for every node the length of a
\* shortest path from the source, and float('inf') exactly for the nodes
\* that the source does not reach.
C7_DijkstraShortestPaths ==
  (op = "dijkstra" /\ pc = "done" /\ source \in store.caller.nodes
     /\ NonNegative(store.caller)) =>
     /\ ret.kind = "return"
     /\ DOMAIN ret.val.dist = store.caller.nodes
     /\ \A t \in store.caller.nodes :
          /\ ret.val.dist[t] = ShortestPathLength(store.caller, source, t)
          /\ ret.val.dist[t] = Inf <=> ~Reachable(store.caller, source, t)

\* an undirected graph (Graph) that is not connected, with a node whose
\* shortest path passes through another node
C7_Witness ==
  /\ op = "dijkstra" /\ Returned /\ NonNegative(store.caller)
  /\ ~store.caller.directed
  /\ \E t \in store.caller.nodes : ret.val.dist[t] = Inf
  /\ \E t \in store.caller.nodes : ret.val.pred[t] \notin {None, source}

\* a <= b on floats with inf
Leq(a, b) == ~Less(b, a)

\* C8: the maps that bellman_ford_shortest_paths returns, and those that
\* dijkstra_shortest_paths returns on a graph with no negative weight, have
\* one entry for each node of the graph, dist[source] = 0, and
\* dist[v] <= dist[u] + w for every edge (u, v) of weight w.
C8_ReturnedMapsAreRelaxed ==
  (pc = "done" /\ ret.kind = "return" /\ source \in store.caller.nodes
     /\ (op = "bellman_ford" \/ (op = "dijkstra" /\ NonNegative(store.caller)))) =>
     /\ DOMAIN ret.val.dist = store.caller.nodes
     /\ DOMAIN ret.val.pred = store.caller.nodes
     /\ ret.val.dist[source] = 0
     /\ \A e \in DOMAIN store.caller.w :
          Leq(ret.val.dist[e[2]], Plus(ret.val.dist[e[1]], store.caller.w[e]))

\* C9: with no negative cycle reachable from the source,
\* bellman_ford_shortest_paths returns after exactly |V| - 1 passes, with the
\* length of a shortest path for every node, and float('inf') and None for
\* the nodes that the source does not reach; so in each order explored.
C9_BellmanFordShortestPaths ==
  (op = "bellman_ford" /\ pc = "done" /\ source \in store.caller.nodes
     /\ ~NegativeCycleReachable(store.caller, source)) =>
     /\ ret.kind = "return"
     /\ i = number_of_nodes(store.caller) - 1
     /\ \A t \in store.caller.nodes :
          /\ ret.val.dist[t] = ShortestPathLength(store.caller, source, t)
          /\ ~Reachable(store.caller, source, t) =>
                ret.val.dist[t] = Inf /\ ret.val.pred[t] = None

\* C10: bellman_ford_shortest_paths and dijkstra_shortest_paths, called with
\* a source that is no node of the graph, raise InvalidNodeError and return
\* no dist / pred.
C10_AbsentSourceRaisesInvalidNodeError ==
  (op \in {"bellman_ford", "dijkstra"} /\ pc = "done"
     /\ source \notin store.caller.nodes) =>
     ret = Raise("InvalidNodeError")

\* the functions that add a supersource, and the names they try
AddsSupersource == op \in {"johnson", "has_negative_cycle"}
Preferred == IF op = "johnson" THEN TempSupersource ELSE Supersource
Fallback == IF op = "johnson" THEN TempSupersourceAsctime ELSE SupersourceAsctime

\* every node and edge of the caller's graph is in g as it was, and what g
\* has more is the node x and edges at x
ExtendsCallerBy(g, x) ==
  /\ x \notin store.caller.nodes
  /\ g.nodes \subseteq store.caller.nodes \cup {x}
  /\ \A e \in DOMAIN g.w : x \notin {e[1], e[2]} => e \in DOMAIN store.caller.w

\* the supersource in use is no node of the caller's graph, it is the
\* preferred name or, when that is a node, the other one, and no edge of the
\* working copy joins two nodes that the caller's graph does not join
SupersourceIsFresh ==
  (AddsSupersource /\ ss # None) =>
     /\ ss = (IF Preferred \in store.caller.nodes THEN Fallback ELSE Preferred)
     /\ ExtendsCallerBy(store.work, ss)

\* with both names taken the call has added nothing when it ends
NothingAddedWhenNoNameIsFree ==
  (AddsSupersource /\ {Preferred, Fallback} \subseteq store.caller.nodes) =>
     /\ ss = None
     /\ store.work = store.caller
     /\ pc \in {"j_add", "h_add", "done"}

\* C11 (as claimed): the supersource of johnson and of has_negative_cycle is
\* never a node of the input graph; with the preferred name taken another,
\* unused one is chosen; with none free the call fails with
\* CollidingSupersourceError before a node or an edge is added.
C11_CollidingSupersourceError ==
  /\ SupersourceIsFresh
  /\ NothingAddedWhenNoNameIsFree
  /\ (AddsSupersource /\ pc = "done" /\ {Preferred, Fallback} \subseteq store.caller.nodes) =>
        ret = Raise("CollidingSupersourceError")

\* C11 (amended): as above, but the error of the call that finds no free
\* name is a plain Exception ('Failed to add supersource.').
C11_SupersourceNeverCollides ==
  /\ SupersourceIsFresh
  /\ NothingAddedWhenNoNameIsFree
  /\ (AddsSupersource /\ pc = "done" /\ {Preferred, Fallback} \subseteq store.caller.nodes) =>
        ret = Raise("Exception")

\* has_negative_cycle ran to its end under the second name, on a graph that
\* holds the preferred one
C11_Witness ==
  /\ op = "has_negative_cycle" /\ Returned
  /\ Supersource \in store.caller.nodes
  /\ ss = SupersourceAsctime
  /\ store.work.w # store.caller.w

\* the nodes not yet finalized and the entries in the heap
Unfinalized == number_of_nodes(store.caller) - num_finalized

\* C12: dijkstra_shortest_paths, for a source in the graph, ends on every
\* graph, negative edges and negative cycles included, and ends by
\* returning dist and pred: no exception, the LookupError of an empty heap
\* included, leaves it.  It ends because every iteration of its main loop
\* either finalizes a node, of which there are finitely many, or takes an
\* entry off the heap and adds none.
C12_DijkstraTerminatesWithoutRaising ==
  /\ [](op = "dijkstra" /\ source \in store.caller.nodes /\ pc = "done"
          => ret.kind = "return" /\ DOMAIN ret.val = {"dist", "pred"})
  /\ [](op = "dijkstra" /\ source \in store.caller.nodes => Unfinalized >= 0)
  /\ [][(op = "dijkstra" /\ source \in store.caller.nodes /\ pc = "dj_loop") =>
          \/ pc' = "done" /\ ret'.kind = "return"
          \/ pc' = "dj_loop" /\ Unfinalized' < Unfinalized
          \/ pc' = "dj_loop" /\ Unfinalized' = Unfinalized /\ Len(heap') < Len(heap)]_vars

\* it returned on a graph with a negative cycle that the source reaches and
\* with a node that it does not reach
C12_Witness ==
  /\ op = "dijkstra" /\ Returned /\ source \in store.caller.nodes
  /\ NegativeCycleReachable(store.caller, source)
  /\ \E t \in store.caller.nodes : ret.val.dist[t] = Inf

\* ------------------------------------------------------------------------
\* Reference notions for lists of items

\* how often x occurs in l
Count(l, x) == Cardinality({k \in DOMAIN l : l[k] = x})

\* l2 holds the items of l1 but for one x
IsWithoutOne(l2, l1, x) ==
  /\ Len(l2) = Len(l1) - 1
  /\ \A y \in Items : Count(l2, y) = Count(l1, y) - (IF y = x THEN 1 ELSE 0)

\* the items that popping until the heap is empty returns, in that order
RECURSIVE PopAll(_, _)
PopAll(items, m) ==
  IF Len(items) = 0 THEN <<>>
  ELSE <<heap_pop(items, m).item>> \o PopAll(heap_pop(items, m).items, m)

KeysNonDecreasing(l) == \A a, b \in DOMAIN l : a < b => l[a][1] <= l[b][1]

\* C13: a pop on a min-heap returns an item of the heap whose key no key in
\* the heap is below, and takes just that item out, whatever inserts and
\* pops came before; so the pops that empty a heap return all its items with
\* their keys in non-decreasing order.
C13_PopReturnsSmallest ==
  /\ [][(pc = "heap" /\ ~max_ /\ op' = "pop" /\ Len(heap) > 0) =>
          /\ ret'.kind = "return"
          /\ Count(heap, ret'.val) > 0
          /\ \A k \in DOMAIN heap : ret'.val[1] <= heap[k][1]
          /\ IsWithoutOne(heap', heap, ret'.val)]_vars
  /\ [](pc = "heap" /\ ~max_ =>
          /\ KeysNonDecreasing(PopAll(heap, max_))
          /\ \A y \in Items : Count(PopAll(heap, max_), y) = Count(heap, y))

\* a pop, after an insert that had to rise to the top, that left three items
\* on a min-heap, one of them with the key returned
C13_Witness ==
  /\ pc = "heap" /\ ~max_ /\ op = "pop" /\ ret.kind = "return"
  /\ Len(heap) = 3
  /\ \E k \in DOMAIN heap : heap[k][1] = ret.val[1]
  /\ \E k \in DOMAIN heap : heap[k][1] > ret.val[1] + 1

\* C14: pop and peek on a heap without items raise LookupError, return no
\* item and leave the heap as a new one is: without items, and such that an
\* insert puts its item on top and the pop after it returns that item.
C14_EmptyHeapRaises ==
  /\ [][(pc = "heap" /\ Len(heap) = 0 /\ op' \in {"pop", "peek"}) =>
          ret' = Raise("LookupError") /\ heap' = <<>>]_vars
  /\ [][(pc = "heap" /\ ret = Raise("LookupError") /\ op' = "insert") =>
          Len(heap') = 1 /\ pop(heap', max_) = [ret |-> Return(heap'[1]), items |-> <<>>]]_vars
  /\ [](pc = "heap" /\ ret = Raise("LookupError") => heap = heap_new(FALSE, <<>>, max_))

\* a pop that raised on a heap that had held items
C14_Witness ==
  /\ pc = "heap" /\ op = "pop" /\ ret = Raise("LookupError") /\ heap = <<>>

\* C15: on a heap with items, peek returns the item that a pop would return
\* and leaves the list of items as it is; len returns the number of items
\* and leaves the list as it is.
C15_PeekAndLenArePure ==
  /\ [][(pc = "heap" /\ op' = "peek" /\ Len(heap) > 0) =>
          ret' = pop(heap, max_).ret /\ heap' = heap /\ max_' = max_]_vars
  /\ [][(pc = "heap" /\ op' = "len") =>
          ret' = Return(Len(heap)) /\ heap' = heap /\ max_' = max_]_vars

\* a peek into a heap of several items whose last item is not the top one
C15_Witness ==
  /\ pc = "heap" /\ op = "peek" /\ ret.kind = "return"
  /\ Len(heap) > 2 /\ heap[Len(heap)] # ret.val

\* the item at index k is not ordered before its parent's
HeapOrdered(items, m) ==
  \A k \in 1..(Len(items) - 1) : ~less(m, At(items, k), At(items, (k - 1) \div 2))

\* C16: the list of items of a BinaryHeap is in heap order, for its min or
\* max comparator, after construction (empty or from any list) and after
\* every insert and pop.
C16_HeapOrder == pc = "heap" => HeapOrdered(heap, max_)

\* a max-heap built from a list that was not in heap order
C16_Witness ==
  /\ pc = "heap" /\ op = "BinaryHeap" /\ max_ /\ Len(heap) = MaxHeapLen
  /\ \E k \in 2..Len(heap) : TupleLt(heap[k], heap[1])
  /\ ~HeapOrdered(heap, FALSE)

\* C17: when bellman_ford_shortest_paths, dijkstra_shortest_paths or
\* johnsons_all_pairs_shortest_paths is called a second time on the same
\* graph with the same arguments, the second call ends as the first did: it
\* returns equal dist and pred, or raises the same error.
C17_SecondRunIsIdentical ==
  pc = "done" /\ first # NoReturn => ret = first

\* the reweighting is done and the Dijkstra runs are under way or over
Reweighted == op = "johnson" /\ pc \in {"j_loop", "dj_init", "dj_loop"}

\* C18: in johnsons_all_pairs_shortest_paths on a graph with no negative
\* cycle, from the end of the reweighting and all through the Dijkstra runs,
\* every edge (u, v) of the working copy weighs what it weighs in the
\* caller's graph plus node_weight[u] minus node_weight[v], and that is a
\* number >= 0.
C18_ReweightedEdgesNonNegative ==
  Reweighted /\ ~HasNegativeCycle(store.caller) =>
    \A e \in DOMAIN store.work.w :
       /\ store.work.w[e] =
            Minus(Plus(store.caller.w[e], node_weight[e[1]]), node_weight[e[2]])
       /\ store.work.w[e] # NaN
       /\ ~Less(store.work.w[e], 0)

\* C19: in what johnsons_all_pairs_shortest_paths returns, for every source s
\* and every node v # s reachable from s, pred[s][v] is a node p with an edge
\* (p, v) in the caller's graph and dist[s][v] = dist[s][p] + the caller's
\* weight of (p, v); pred[s][s] is None, and pred[s][v] is None for every v
\* not reachable from s.
C19_PredecessorsAreValid ==
  Returned /\ op = "johnson" =>
    LET g == store.caller
        d == ret.val.dist
        p == ret.val.pred
    IN \A s, v \in g.nodes :
         /\ p[s][s] = None
         /\ ~Reachable(g, s, v) => p[s][v] = None
         /\ Reachable(g, s, v) /\ v # s =>
              /\ <<p[s][v], v>> \in DOMAIN g.w
              /\ d[s][v] = Plus(d[s][p[s][v]], g.w[<<p[s][v], v>>])

\* the loop `for node in graph.nodes_iter()' of the Dijkstra runs, one run
\* after the other, over the nodes still to come
RECURSIVE dijkstra_runs(_, _, _)
dijkstra_runs(g, nodes, dp) ==
  IF nodes = <<>> THEN dp
  ELSE dijkstra_runs(g, Tail(nodes),
                     set_slots(dp, Head(nodes), dj_main_loop(g, dj_start(g, Head(nodes)))))

\* what johnsons_all_pairs_shortest_paths returns when the runs on the
\* reweighted graph g are made one after the other
SequentialResult(g, nw) ==
  LET dp == dijkstra_runs(g, nodes_iter(g), DistAndPred(<<>>, <<>>))
  IN Return(DistAndPred([u \in DOMAIN dp.dist |->
                           [v \in DOMAIN dp.dist[u] |->
                              undo_reweighting(dp.dist[u][v], nw[u], nw[v])]],
                        dp.pred))

\* C20: the Dijkstra runs of johnsons_all_pairs_shortest_paths do not depend
\* on one another: whatever the order in which the runs begin and end and
\* however their steps are interleaved, no step of a run changes the
\* reweighted graph, the node weights, the locals of another run or the
\* entries of dist and pred of another source, and the call returns what it
\* returns when the runs are made one after the other.
C20_DijkstraRunsAreIndependent ==
  /\ [](Returned /\ op = "johnson" => ret = SequentialResult(store.work, node_weight))
  /\ [][(op = "johnson" /\ pc = "j_loop" /\ pc' = "j_loop") =>
          /\ store' = store /\ node_weight' = node_weight
          /\ \A s \in DOMAIN jdist : jdist'[s] = jdist[s] /\ jpred'[s] = jpred[s]
          /\ Cardinality({s \in DOMAIN runs \cup DOMAIN runs' :
                            s \notin DOMAIN runs \/ s \notin DOMAIN runs'
                            \/ runs'[s] # runs[s]}) <= 1
          /\ \A s \in DOMAIN jdist' \ DOMAIN jdist :
                s \in DOMAIN runs /\ s \notin DOMAIN runs'
                /\ jdist'[s] = runs[s].dist /\ jpred'[s] = runs[s].pred]_vars

\* two runs under way while the run of a later node has ended, the earlier
\* node's run having finalized a node
C20_Witness ==
  /\ op = "johnson" /\ pc = "j_loop" /\ Cardinality(DOMAIN runs) >= 2
  /\ \E s \in DOMAIN jdist, t \in DOMAIN runs :
        /\ Pos(store.work, t) < Pos(store.work, s)
        /\ runs[t].num_finalized > 0
        /\ \E v \in DOMAIN jpred[s] : jpred[s][v] \notin {None, s}

\* _compute_node_weights has been left, by its return or by an exception that
\* johnsons_all_pairs_shortest_paths lets through
ComputeNodeWeightsLeft ==
  op = "johnson" /\ (pc = "j_reweight" \/ (pc = "done" /\ ret.kind = "raise"))

\* C21: whenever _compute_node_weights is left, by its return or by the
\* NegativeCycleError of Bellman-Ford, the working copy holds neither the
\* supersource nor an edge of it.
C21_SupersourceRemovedOnEveryExit ==
  ComputeNodeWeightsLeft /\ ss # None =>
    /\ ss \notin store.work.nodes
    /\ \A e \in DOMAIN store.work.w : e[1] # ss /\ e[2] # ss

\* C22: when _compute_node_weights returns, before any edge is reweighted,
\* the working copy has the nodes, the edges and the weights of the caller's
\* graph again, and node_weight has one entry for each of its nodes and none
\* for the supersource.
C22_AddThenRemoveIsIdentity ==
  op = "johnson" /\ pc = "j_reweight" =>
    /\ store.work.nodes = store.caller.nodes
    /\ store.work.w = store.caller.w
    /\ store.work.directed = store.caller.directed
    /\ DOMAIN node_weight = store.caller.nodes
    /\ ss \notin DOMAIN node_weight

\* the return of _compute_node_weights on an undirected graph with edges,
\* the supersource having been placed before its nodes
C22_Witness ==
  /\ op = "johnson" /\ pc = "j_reweight" /\ ss = TempSupersource
  /\ Cardinality(store.caller.nodes) = MaxNodes
  /\ ~store.caller.directed
  /\ DOMAIN store.caller.w # {}
  /\ place = {0}

\* the paths of g: the sequences of up to number_of_nodes(g) + 1 nodes with an
\* edge of g from each node to the next
PathsOf(g) ==
  UNION {{p \in [1..n -> g.nodes] : \A k \in 1..(n - 1) : <<p[k], p[k + 1]>> \in DOMAIN g.w}
         : n \in 2..(number_of_nodes(g) + 1)}

RECURSIVE LengthFrom(_, _, _)
LengthFrom(g, p, k) ==
  IF k >= Len(p) THEN 0 ELSE Plus(g.w[<<p[k], p[k + 1]>>], LengthFrom(g, p, k + 1))

PathLength(g, p) == LengthFrom(g, p, 1)

\* C23: once Johnson has reweighted, every path from u to v is as long in
\* the working copy as in the caller's graph plus node_weight[u] minus
\* node_weight[v]; and the dist it returns, after the correction
\* dist[u][v] - node_weight[u] + node_weight[v], is the length of a shortest
\* path of the caller's graph, 0 from a node to itself and float('inf')
\* where there is no path.
C23_ReweightingRoundTrip ==
  /\ Reweighted =>
       \A p \in PathsOf(store.work) :
          PathLength(store.work, p) =
            Minus(Plus(PathLength(store.caller, p), node_weight[p[1]]), node_weight[p[Len(p)]])
  /\ Returned /\ op = "johnson" =>
       \A u, v \in store.caller.nodes :
          /\ ret.val.dist[u][v] = ShortestPathLength(store.caller, u, v)
          /\ ret.val.dist[u][u] = 0

\* C24: in dijkstra_shortest_paths no node is finalized twice: an iteration
\* that pops an entry of a finalized node changes nothing but the heap, which
\* loses that entry; an iteration that pops an entry of another node u
\* finalizes u alone, counts it, and leaves no edge (u, v) of weight w with
\* dist[u] + w < dist[v]; and the count is the number of finalized nodes.
C24_FinalizedAtMostOnce ==
  /\ [](op = "dijkstra" /\ pc = "dj_loop" =>
          num_finalized = Cardinality({n \in DOMAIN finalized : finalized[n]}))
  /\ [][(op = "dijkstra" /\ pc = "dj_loop" /\ pc' = "dj_loop") =>
          LET popped == heap_pop(heap, max_)
              u == popped.item[2]
          IN IF finalized[u]
             THEN /\ dist' = dist /\ pred' = pred
                  /\ finalized' = finalized /\ num_finalized' = num_finalized
                  /\ heap' = popped.items
             ELSE /\ finalized' = [finalized EXCEPT ![u] = TRUE]
                  /\ num_finalized' = num_finalized + 1
                  /\ \A e \in DOMAIN store.caller.w :
                        e[1] = u => ~Less(Plus(dist[u], store.caller.w[e]), dist'[e[2]])]_vars

\* an entry of a finalized node is on top of the heap when the loop goes on:
\* the next iteration discards it
C24_Witness ==
  /\ op = "dijkstra" /\ pc = "dj_loop"
  /\ source \in store.caller.nodes
  /\ dj_running(store.caller, dj_locals)
  /\ finalized[heap[1][2]]
  /\ dist[heap[1][2]] < heap[1][1]

\* C25: a BinaryHeap, min or max, holds a multiset of items: insert returns
\* None and leaves the heap with one item more, the inserted one, whether
\* or not its key or the item itself was there; a pop that returns leaves
\* the heap with one item less, one occurrence of the returned item, and
\* every other item as often as before; so popping until the heap is empty
\* returns every item as often as the heap held it.
C25_HeapIsMultiset ==
  /\ [][(pc = "heap" /\ op' = "insert") =>
          /\ ret' = Return(None)
          /\ Len(heap') = Len(heap) + 1
          /\ \E x \in Items : IsWithoutOne(heap, heap', x)]_vars
  /\ [][(pc = "heap" /\ op' = "pop" /\ ret'.kind = "return") =>
          /\ Len(heap') = Len(heap) - 1
          /\ IsWithoutOne(heap', heap, ret'.val)]_vars
  /\ [](pc = "heap" =>
          /\ Len(PopAll(heap, max_)) = Len(heap)
          /\ \A y \in Items : Count(PopAll(heap, max_), y) = Count(heap, y))

\* an insert of an item that the heap held already: it holds it twice, and
\* another item of the same key
C25_Witness ==
  /\ pc = "heap" /\ op = "insert"
  /\ \E x, y \in Items : x # y /\ x[1] = y[1] /\ Count(heap, x) = 2 /\ Count(heap, y) = 1

\* the items related to an item of S by the reflexive, symmetric and
\* transitive closure of the pairs passed to union
RECURSIVE ClassFrom(_)
ClassFrom(S) ==
  LET T == S \cup {y \in _items : \E x \in S : {x, y} \in united}
  IN IF T = S THEN S ELSE ClassFrom(T)

Related(a, b) == b \in ClassFrom({a})

\* the step is a union of two items that were related
UnionOfJoined ==
  \A a, b \in _items : (united' = united \cup {{a, b}}) => Related(a, b)

\* C26: after any unions on a UnionFindSimpleImpl, joined(a, b) is True
\* exactly when a and b are related by the reflexive, symmetric and
\* transitive closure of the pairs passed to union, and exactly then
\* find(a) = find(b); num_clusters() is the number of classes of that
\* relation; and a union of two items of one cluster changes no field.
C26_UnionFindIsClosure ==
  /\ [](pc = "uf" =>
          /\ \A a, b \in _items :
                /\ uf_joined(self_uf, a, b) = Related(a, b)
                /\ (uf_find(self_uf, a) = uf_find(self_uf, b)) = Related(a, b)
          /\ uf_num_clusters(self_uf) = Cardinality({ClassFrom({a}) : a \in _items}))
  /\ [][(pc = "uf" /\ op' = "union" /\ UnionOfJoined) =>
          /\ _leader' = _leader /\ _followers' = _followers
          /\ _cluster_size' = _cluster_size /\ _items' = _items]_vars
  /\ [][(pc = "uf" /\ op' = "joined") =>
          ret'.val \in BOOLEAN /\ UNCHANGED uf_vars]_vars
  /\ [][(pc = "uf" /\ op' = "num_clusters") =>
          ret' = Return(Cardinality({ClassFrom({a}) : a \in _items})) /\ UNCHANGED uf_vars]_vars

\* two clusters of two items each, made by unions, one more union of two
\* items already joined having been made
C26_Witness ==
  /\ pc = "uf" /\ op = "union" /\ Cardinality(_items) = MaxItems
  /\ uf_num_clusters(self_uf) = 2
  /\ \A x \in DOMAIN _cluster_size : _cluster_size[x] = 2
  /\ Cardinality(united) > 2

Elements(l) == {l[k] : k \in DOMAIN l}

\* the k-th smallest of the items of l, k in 1..Len(l)
KthSmallest(l, k) ==
  CHOOSE x \in Elements(l) :
     /\ Cardinality({j \in DOMAIN l : TupleLt(l[j], x)}) < k
     /\ k <= Cardinality({j \in DOMAIN l : ~TupleLt(x, l[j])})

\* C27: after N >= 1 inserts on a MedianMaintainer, median() with the
\* default choice returns the lower median of the inserted items, the
\* ((N + 1) div 2)-th smallest; after every insert the two heaps hold the
\* inserted items between them, their lengths differ by at most one and no
\* item of lower_half is above an item of higher_half; with no item
\* inserted median() raises LookupError.
C27_MedianIsLowerMedian ==
  pc = "mm" =>
    LET N == Len(inserted)
    IN /\ mm_len(self_mm) = N
       /\ \A y \in Items : Count(lower_half, y) + Count(higher_half, y) = Count(inserted, y)
       /\ Len(lower_half) - Len(higher_half) \in {-1, 0, 1}
       /\ \A x \in Elements(lower_half), y \in Elements(higher_half) : ~TupleLt(y, x)
       /\ N = 0 => mm_median(self_mm, "Lower") = Raise("LookupError")
       /\ N >= 1 => mm_median(self_mm, "Lower") = Return(KthSmallest(inserted, (N + 1) \div 2))
       /\ op = "median" => ret = mm_median(self_mm, "Lower")

\* a median returned after an even number of inserts that came neither in
\* ascending nor in descending order, the higher half holding the more
\* recent item
C27_Witness ==
  /\ pc = "mm" /\ op = "median" /\ Len(inserted) = MaxInserts
  /\ ret = Return(KthSmallest(inserted, MaxInserts \div 2))
  /\ TupleLt(inserted[2], inserted[1]) /\ TupleLt(inserted[2], inserted[3])
  /\ ret.val # inserted[MaxInserts]
  /\ TupleLt(ret.val, higher_half[1])

\* dijkstra_shortest_paths runs from a node of a graph with no negative weight
DijkstraOnNonNegative ==
  op = "dijkstra" /\ source \in store.caller.nodes /\ NonNegative(store.caller)

\* C28: in dijkstra_shortest_paths on a graph with no negative weight, the
\* entry popped by the iteration that finalizes a node u has dist[u] as its
\* key, dist[u] is then the length of a shortest path from the source to u
\* and no finalized node has a greater dist; and no iteration changes the
\* dist or the pred of a node finalized before it.
C28_FinalizedDistIsFinal ==
  [][(DijkstraOnNonNegative /\ pc = "dj_loop" /\ pc' = "dj_loop") =>
       LET popped == heap_pop(heap, max_).item
           u == popped[2]
       IN /\ \A n \in DOMAIN finalized :
                finalized[n] => dist'[n] = dist[n] /\ pred'[n] = pred[n]
          /\ ~finalized[u] =>
                /\ popped[1] = dist[u]
                /\ dist[u] = ShortestPathLength(store.caller, source, u)
                /\ dist'[u] = dist[u] /\ pred'[u] = pred[u]
                /\ \A n \in DOMAIN finalized : finalized[n] => dist[n] <= dist[u]]_vars

\* the loop still running with two nodes finalized besides the source, the
\* later one reached through the earlier, at different distances
C28_Witness ==
  /\ DijkstraOnNonNegative /\ pc = "dj_loop"
  /\ dj_running(store.caller, dj_locals)
  /\ \E u, v \in store.caller.nodes \ {source} :
        /\ finalized[u] /\ finalized[v]
        /\ pred[v] = u /\ pred[u] = source
        /\ 0 < dist[u] /\ dist[u] < dist[v]

\* following p from v reaches s in at most k steps
RECURSIVE ReachesSource(_, _, _, _)
ReachesSource(p, s, v, k) ==
  IF v = s THEN TRUE
  ELSE IF k = 0 \/ v \notin DOMAIN p \/ p[v] = None THEN FALSE
  ELSE ReachesSource(p, s, p[v], k - 1)

\* a single-source solver has returned maps that the claim speaks of
ReturnedTree ==
  /\ Returned /\ source \in store.caller.nodes
  /\ op = "bellman_ford" \/ (op = "dijkstra" /\ NonNegative(store.caller))

\* C29: when bellman_ford_shortest_paths returns, or
\* dijkstra_shortest_paths returns on a graph with no negative weight, pred
\* is a shortest-path tree rooted at the source: pred[source] is None; every
\* other node v of finite dist has a pred p with an edge (p, v) and
\* dist[v] = dist[p] + weight(p, v); following pred from a reachable node
\* reaches the source within |V| - 1 steps; and pred[v] is None exactly when
\* v is the source or is not reachable.
C29_PredIsShortestPathTree ==
  ReturnedTree =>
    LET g == store.caller
        d == ret.val.dist
        p == ret.val.pred
    IN /\ p[source] = None
       /\ \A v \in g.nodes \ {source} :
             /\ d[v] # Inf =>
                   /\ <<p[v], v>> \in DOMAIN g.w
                   /\ d[v] = Plus(d[p[v]], g.w[<<p[v], v>>])
             /\ Reachable(g, source, v) => ReachesSource(p, source, v, number_of_nodes(g) - 1)
             /\ (p[v] = None) = ~Reachable(g, source, v)

Finite(x) == x \notin {Inf, NegInf, NaN}

\* C30: in johnsons_all_pairs_shortest_paths on a graph with no negative
\* cycle every node weight that the Bellman-Ford run from the supersource
\* gives is a finite number <= 0, so that no reweighted edge and no
\* returned dist is the nan of float('inf') - float('inf').
C30_PotentialsAreFinite ==
  op = "johnson" /\ ~HasNegativeCycle(store.caller) =>
    /\ pc \in {"j_remove", "j_reweight", "j_loop", "dj_init", "dj_loop"} \/ Returned =>
          \A n \in store.caller.nodes : Finite(node_weight[n]) /\ node_weight[n] <= 0
    /\ Reweighted => \A e \in DOMAIN store.work.w : store.work.w[e] # NaN
    /\ Returned => \A u, v \in store.caller.nodes : ret.val.dist[u][v] # NaN

====
